---- MODULE Spec2Model ----
(***************************************************************************)
(* Model of src/src/solution.rs: lazy_run maps run_testcase over the       *)
(* testcases; run_testcase spawns a child with piped stdio, writes         *)
(* test_in to its stdin, waits up to the timeout, kills on expiry,         *)
(* collects the output and hands it to TestResult::from_output.            *)
(*                                                                         *)
(* The harness is one thread; the child process runs concurrently with it. *)
(* Strings are sequences of characters; test_in is modelled by its length  *)
(* in bytes (the harness never looks at its content).  Time is counted in  *)
(* ticks of the deadline-bounded wait.                                     *)
(***************************************************************************)
EXTENDS Naturals, Sequences, FiniteSets, TLC

\* ---------------------------------------------------------------- bounds
NumTests == 2       \* testcases in the run
MaxIn == 2          \* longest test_in, in bytes
MaxLen == 1         \* longest test_out, in characters
PipeCap == 1        \* capacity of an OS pipe, in bytes
MaxTimeout == 2     \* longest timeout, in ticks

Alphabet == {"a", "\n"}
ErrAlphabet == {"e"}

\* All strings over alphabet A of length at most n.
RECURSIVE StrsOf(_, _)
StrsOf(A, n) ==
    IF n = 0 THEN {<<>>}
    ELSE LET shorter == StrsOf(A, n - 1)
         IN  shorter \cup {Append(s, c) : s \in shorter, c \in A}

Min(a, b) == IF a < b THEN a ELSE b

\* ------------------------------------------------------------ data model
\* crate::clash::Testcase (index, test_in, test_out are what the core reads).
Testcase(i, tin, tout) == [index |-> i, test_in |-> tin, test_out |-> tout]

NoTestcase == Testcase(0, 0, <<>>)

\* TestResult, one record shape for the four variants.
Success == [kind |-> "Success", stdout |-> <<>>, stderr |-> <<>>, error_msg |-> <<>>]

Failed(stdout, stderr) ==
    [kind |-> "Failed", stdout |-> stdout, stderr |-> stderr, error_msg |-> <<>>]

TimedOut(stdout, stderr) ==
    [kind |-> "TimedOut", stdout |-> stdout, stderr |-> stderr, error_msg |-> <<>>]

UnableToRun(error_msg) ==
    [kind |-> "UnableToRun", stdout |-> <<>>, stderr |-> <<>>, error_msg |-> error_msg]

NoResult == [kind |-> "None", stdout |-> <<>>, stderr |-> <<>>, error_msg |-> <<>>]

\* The pair the closure of lazy_run returns.
Pair(t, result) == [test |-> t, result |-> result]

NoPair == Pair(NoTestcase, NoResult)

is_success(result) == result.kind = "Success"

\* ------------------------------------------------------------ classifier
IsWhitespace(c) == c = "\n"

\* Normalization of an output: trailing whitespace and line endings dropped.
RECURSIVE Normalize(_)
Normalize(s) ==
    IF s = <<>> THEN s
    ELSE IF IsWhitespace(s[Len(s)]) THEN Normalize(SubSeq(s, 1, Len(s) - 1))
    ELSE s

\* TestResult::from_output(expected, stdout, stderr, exit_status).
from_output(expected, stdout, stderr, exit_status) ==
    IF exit_status = "Timeout" THEN TimedOut(stdout, stderr)
    ELSE IF exit_status = "Ok" /\ Normalize(stdout) = Normalize(expected) THEN Success
    ELSE Failed(stdout, stderr)

\* ----------------------------------------------------------------- state
VARIABLES
    timeout,     \* the timeout handed to lazy_run, in ticks
    next,        \* elements the consumer has requested so far
    yielded,     \* pairs the consumer has received so far
    last,        \* the pair the consumer holds (dropped when it asks for the next)
    prevKind,    \* the verdict the consumer received before the current request
    hpc,         \* where the harness is: idle, write, wait, kill, collect, panicked
    test,        \* the testcase of the execution in flight (closure argument)
    written,     \* bytes of test_in written to the child's stdin so far
    stdinOpen,   \* the harness still holds the write end of the child's stdin
    stdinBuf,    \* bytes sitting in the stdin pipe
    child,       \* none, running, blocked (on a full pipe), exited (not reaped), reaped
    status,      \* exit status of the child: none, success, failure, killed
    stdoutBuf,   \* what sits in the stdout pipe
    stderrBuf,   \* what sits in the stderr pipe
    elapsed,     \* ticks elapsed in the deadline-bounded wait
    timed_out,   \* local timed_out of run_testcase
    steps,       \* steps run_testcase performed for the execution in flight
    spawnFailed, \* the spawn of this execution failed
    inTime,      \* the child concluded before the wait reported expiry
    handed,      \* CommandExit handed to the classifier in this execution
    wroteOut,    \* everything the child wrote to its stdout in this execution
    wroteErr,    \* everything the child wrote to its stderr in this execution
    command,     \* the command template (run_command): program and stdio setting
    readEnds,    \* read ends of the child's output pipes the harness holds
    spawns,      \* spawn attempts made for the sequence being iterated
    live,        \* children of the harness that are alive or not yet reaped
    reaps,       \* times the child of this execution was reaped
    kills,       \* kills issued in this execution
    slow         \* time passed in the wait while the child was free to run

vars == <<timeout, next, yielded, last, prevKind, hpc, test, written, stdinOpen,
          stdinBuf, child, status, stdoutBuf, stderrBuf, elapsed, timed_out,
          steps, spawnFailed, inTime, handed, wroteOut, wroteErr, command,
          readEnds, spawns, live, reaps, kills, slow>>

inputVars == <<timeout>>
childVars == <<child, status, stdinBuf, stdoutBuf, stderrBuf, inTime, wroteOut, wroteErr>>

\* Program names: one that is valid UTF-8 and one that is not.
Programs == {[name |-> "prog", utf8 |-> TRUE], [name |-> "pr\\xFFg", utf8 |-> FALSE]}

\* What spawn() can report when the executable cannot be launched.
LaunchErrors == {"No such file or directory", "Permission denied"}

\* Command::new(program): the stdio of the child is not configured yet.
Command_new(p) ==
    [program |-> p, stdin |-> "default", stdout |-> "default", stderr |-> "default"]

\* Mutant of ConfigureStdio: each call flips the stdio setting it finds in the
\* template instead of overwriting it.
ConfigureStdio_toggle(cmd) ==
    LET flip(x) == IF x = "piped" THEN "default" ELSE "piped"
    IN  [cmd EXCEPT !.stdin = flip(@), !.stdout = flip(@), !.stderr = flip(@)]

\* .stdin(Stdio::piped()).stdout(Stdio::piped()).stderr(Stdio::piped()) on the
\* template.
ConfigureStdio(cmd) ==
    [cmd EXCEPT !.stdin = "piped", !.stdout = "piped", !.stderr = "piped"]

\* The ends of the child's output pipes spawn() hands to the harness: those
\* the template asks to pipe.
PipedEnds(cmd) == {e \in {"stdout", "stderr"} : cmd[e] = "piped"}

\* run_command.get_program().to_str().unwrap_or("Unable to run command")
ProgramStr(cmd) ==
    IF cmd.program.utf8 THEN cmd.program.name ELSE "Unable to run command"

\* The child has not concluded: it runs, or it is blocked writing to a full pipe.
ChildAlive == child \in {"running", "blocked"}

TestcasePool(i) ==
    {Testcase(i, tin, tout) : tin \in 0..MaxIn, tout \in StrsOf(Alphabet, MaxLen)}

\* The state after lazy_run is called on a template built by Command::new for
\* one of the given programs: nothing has run.
InitOf(programs) ==
    /\ timeout \in 1..MaxTimeout
    /\ next = 0
    /\ yielded = 0
    /\ last = NoPair
    /\ prevKind = "None"
    /\ hpc = "idle"
    /\ test = NoTestcase
    /\ written = 0
    /\ stdinOpen = FALSE
    /\ stdinBuf = 0
    /\ child = "none"
    /\ status = "none"
    /\ stdoutBuf = <<>>
    /\ stderrBuf = <<>>
    /\ elapsed = 0
    /\ timed_out = FALSE
    /\ steps = {}
    /\ spawnFailed = FALSE
    /\ inTime = FALSE
    /\ handed = "None"
    /\ wroteOut = <<>>
    /\ wroteErr = <<>>
    /\ \E p \in programs : command = Command_new(p)
    /\ readEnds = {}
    /\ spawns = 0
    /\ live = 0
    /\ reaps = 0
    /\ kills = 0
    /\ slow = FALSE

\* The runs of a program that can be launched do not read its name: one name
\* stands for all of them.
Init == InitOf({[name |-> "prog", utf8 |-> TRUE]})

\* The template names any of the programs, and no launch succeeds.
InitLaunch == InitOf(Programs)

\* ------------------------------------------------------------- lazy_run
\* Mutant of NextTests: the testcases are walked from the back.
NextTests_reversed == TestcasePool(NumTests - next)

\* What the underlying iterator can hand to the map closure on a request: the
\* testcase at the next position of the input, whatever its input and
\* expected output.
NextTests == TestcasePool(next + 1)

\* The caller drops the sequence (the borrow of the template ends) and calls
\* lazy_run again with the same command template and timeout: nothing runs,
\* and the locals of the last run_testcase call are gone.
NewSequence ==
    /\ hpc = "idle"
    /\ next >= 1
    /\ next' = 0
    /\ yielded' = 0
    /\ spawns' = 0
    /\ last' = NoPair
    /\ prevKind' = "None"
    /\ test' = NoTestcase
    /\ written' = 0
    /\ timed_out' = FALSE
    /\ steps' = {}
    /\ spawnFailed' = FALSE
    /\ inTime' = FALSE
    /\ handed' = "None"
    /\ wroteOut' = <<>>
    /\ wroteErr' = <<>>
    /\ reaps' = 0
    /\ kills' = 0
    /\ slow' = FALSE
    /\ UNCHANGED <<inputVars, command, hpc, stdinOpen, readEnds, child, status,
                   stdinBuf, stdoutBuf, stderrBuf, elapsed, live>>

\* The consumer receives a pair from the iterator.
Yield(pair) ==
    /\ yielded' = yielded + 1
    /\ last' = pair

\* ---------------------------------------------------------- run_testcase
\* Mutant of ErrorMsg: the launch error comes first, the program last.
ErrorMsg_errorFirst(program, error) == <<error, ": ", program>>

\* format!("{}: {}", program, error)
ErrorMsg(program, error) == <<program, ": ", error>>

\* The consumer requests an element and the spawn succeeds.
SpawnOk ==
    /\ hpc = "idle"
    /\ next < NumTests
    /\ next' = next + 1
    /\ prevKind' = last.result.kind
    /\ \E t \in NextTests : test' = t
    /\ last' = NoPair
    /\ hpc' = "write"
    /\ LET cmd == ConfigureStdio(command)
       IN  /\ command' = cmd
           /\ stdinOpen' = (cmd.stdin = "piped")
           /\ readEnds' = PipedEnds(cmd)
    /\ spawns' = spawns + 1
    /\ live' = live + 1
    /\ reaps' = 0
    /\ kills' = 0
    /\ slow' = FALSE
    /\ child' = "running"
    /\ status' = "none"
    /\ stdinBuf' = 0
    /\ stdoutBuf' = <<>>
    /\ stderrBuf' = <<>>
    /\ written' = 0
    /\ timed_out' = FALSE
    /\ steps' = {"spawn"}
    /\ spawnFailed' = FALSE
    /\ inTime' = FALSE
    /\ handed' = "None"
    /\ wroteOut' = <<>>
    /\ wroteErr' = <<>>
    /\ UNCHANGED <<inputVars, yielded, elapsed>>

\* Mutant of SpawnFail: the launch error does not return early; the run goes
\* on to collect (nothing) and classifies it as an errored execution.
SpawnFail_fallthrough ==
    /\ hpc = "idle"
    /\ next < NumTests
    /\ next' = next + 1
    /\ prevKind' = last.result.kind
    /\ \E t \in NextTests :
        /\ test' = t
        /\ Yield(Pair(t, from_output(t.test_out, <<>>, <<>>, "Error")))
    /\ command' = ConfigureStdio(command)
    /\ readEnds' = {}
    /\ spawns' = spawns + 1
    /\ reaps' = 0
    /\ kills' = 0
    /\ slow' = FALSE
    /\ child' = "none"
    /\ status' = "none"
    /\ stdinOpen' = FALSE
    /\ stdinBuf' = 0
    /\ stdoutBuf' = <<>>
    /\ stderrBuf' = <<>>
    /\ written' = 0
    /\ timed_out' = FALSE
    /\ steps' = {"spawn", "collect", "classify"}
    /\ spawnFailed' = TRUE
    /\ inTime' = FALSE
    /\ handed' = "Error"
    /\ wroteOut' = <<>>
    /\ wroteErr' = <<>>
    /\ UNCHANGED <<inputVars, hpc, elapsed,
                   live>>

\* Mutant of SpawnFail: a failed spawn is attempted a second time before the
\* verdict is returned.
SpawnFail_retries ==
    /\ hpc = "idle"
    /\ next < NumTests
    /\ next' = next + 1
    /\ prevKind' = last.result.kind
    /\ \E t \in NextTests, error \in LaunchErrors :
        /\ test' = t
        /\ Yield(Pair(t, UnableToRun(ErrorMsg(ProgramStr(command), error))))
    /\ command' = ConfigureStdio(command)
    /\ readEnds' = {}
    /\ spawns' = spawns + 2
    /\ reaps' = 0
    /\ kills' = 0
    /\ slow' = FALSE
    /\ child' = "none"
    /\ status' = "none"
    /\ stdinOpen' = FALSE
    /\ stdinBuf' = 0
    /\ stdoutBuf' = <<>>
    /\ stderrBuf' = <<>>
    /\ written' = 0
    /\ timed_out' = FALSE
    /\ steps' = {"spawn"}
    /\ spawnFailed' = TRUE
    /\ inTime' = FALSE
    /\ handed' = "None"
    /\ wroteOut' = <<>>
    /\ wroteErr' = <<>>
    /\ UNCHANGED <<inputVars, hpc, elapsed,
                   live>>

\* The consumer requests an element and the spawn fails: UnableToRun at once.
SpawnFail ==
    /\ hpc = "idle"
    /\ next < NumTests
    /\ next' = next + 1
    /\ prevKind' = last.result.kind
    /\ \E t \in NextTests, error \in LaunchErrors :
        /\ test' = t
        /\ Yield(Pair(t, UnableToRun(ErrorMsg(ProgramStr(command), error))))
    /\ command' = ConfigureStdio(command)
    /\ readEnds' = {}
    /\ spawns' = spawns + 1
    /\ reaps' = 0
    /\ kills' = 0
    /\ slow' = FALSE
    /\ child' = "none"
    /\ status' = "none"
    /\ stdinOpen' = FALSE
    /\ stdinBuf' = 0
    /\ stdoutBuf' = <<>>
    /\ stderrBuf' = <<>>
    /\ written' = 0
    /\ timed_out' = FALSE
    /\ steps' = {"spawn"}
    /\ spawnFailed' = TRUE
    /\ inTime' = FALSE
    /\ handed' = "None"
    /\ wroteOut' = <<>>
    /\ wroteErr' = <<>>
    /\ UNCHANGED <<inputVars, hpc, elapsed,
                   live>>

\* One write(2) of write_all: as many bytes as the pipe takes; blocks when full.
WriteChunk ==
    /\ hpc = "write"
    /\ stdinOpen
    /\ written < test.test_in
    /\ ChildAlive
    /\ stdinBuf < PipeCap
    /\ LET n == Min(test.test_in - written, PipeCap - stdinBuf)
       IN  /\ written' = written + n
           /\ stdinBuf' = stdinBuf + n
    /\ UNCHANGED <<inputVars, next, yielded, last, prevKind, hpc, test, stdinOpen, child,
                   status, stdoutBuf, stderrBuf, elapsed, timed_out, steps,
                   spawnFailed, inTime, handed, wroteOut, wroteErr,
                   command, readEnds, spawns, live, reaps, kills, slow>>

\* The child has no piped stdin to take, or write(2) on a pipe whose read end
\* is gone fails; expect() panics.
WriteFail ==
    /\ hpc = "write"
    /\ \/ ~stdinOpen
       \/ written < test.test_in /\ ~ChildAlive
    /\ hpc' = "panicked"
    /\ UNCHANGED <<inputVars, next, yielded, last, prevKind, test, written, stdinOpen,
                   childVars, elapsed, timed_out, steps, spawnFailed, handed,
                   command, readEnds, spawns, live, reaps, kills, slow>>

\* Mutant of WaitBegin: the deadline is not restarted for this execution.
WaitBegin_sharedDeadline ==
    /\ hpc = "write"
    /\ stdinOpen
    /\ written = test.test_in
    /\ hpc' = "wait"
    /\ stdinOpen' = FALSE
    /\ steps' = steps \cup {"wait"}
    /\ UNCHANGED <<inputVars, next, yielded, last, prevKind, test, written, childVars,
                   elapsed, timed_out, spawnFailed, handed,
                   command, readEnds, spawns, live, reaps, kills, slow>>

\* Mutant of WaitBegin: the stdin handle stays open during the wait (it is
\* dropped only by wait_with_output).
WaitBegin_keepsStdin ==
    /\ hpc = "write"
    /\ stdinOpen
    /\ written = test.test_in
    /\ hpc' = "wait"
    /\ elapsed' = 0
    /\ steps' = steps \cup {"wait"}
    /\ UNCHANGED <<inputVars, next, yielded, last, prevKind, test, written, stdinOpen,
                   childVars, timed_out, spawnFailed, handed,
                   command, readEnds, spawns, live, reaps, kills, slow>>

\* write_all returned; wait_timeout begins: it drops the stdin handle (the
\* child reading to end-of-input, cat in the doc example, finishes within the
\* timeout) and starts a fresh deadline.
WaitBegin ==
    /\ hpc = "write"
    /\ stdinOpen
    /\ written = test.test_in
    /\ hpc' = "wait"
    /\ stdinOpen' = FALSE
    /\ elapsed' = 0
    /\ steps' = steps \cup {"wait"}
    /\ UNCHANGED <<inputVars, next, yielded, last, prevKind, test, written, childVars,
                   timed_out, spawnFailed, handed,
                   command, readEnds, spawns, live, reaps, kills, slow>>

\* Time passes while the harness waits for a child that has not concluded.
Tick ==
    /\ hpc = "wait"
    /\ ChildAlive
    /\ elapsed < timeout
    /\ elapsed' = elapsed + 1
    /\ slow' = (slow \/ child = "running")
    /\ UNCHANGED <<inputVars, next, yielded, last, prevKind, hpc, test, written, stdinOpen,
                   childVars, timed_out, steps, spawnFailed, handed,
                   command, readEnds, spawns, live, reaps, kills>>

\* Mutant of WaitExited: the kill is issued whatever the wait reported.
WaitExited_thenKill ==
    /\ hpc = "wait"
    /\ child = "exited"
    /\ child' = "reaped"
    /\ reaps' = reaps + 1
    /\ live' = live - 1
    /\ timed_out' = FALSE
    /\ hpc' = "kill"
    /\ UNCHANGED <<inputVars, next, yielded, last, prevKind, test, written, stdinOpen,
                   status, stdinBuf, stdoutBuf, stderrBuf, inTime, elapsed, steps,
                   spawnFailed, handed, wroteOut, wroteErr,
                   command, readEnds, spawns, kills, slow>>

\* wait_timeout returns Some(status): the child concluded and is reaped.
WaitExited ==
    /\ hpc = "wait"
    /\ child = "exited"
    /\ child' = "reaped"
    /\ reaps' = reaps + 1
    /\ live' = live - 1
    /\ timed_out' = FALSE
    /\ hpc' = "collect"
    /\ UNCHANGED <<inputVars, next, yielded, last, prevKind, test, written, stdinOpen,
                   status, stdinBuf, stdoutBuf, stderrBuf, inTime, elapsed, steps,
                   spawnFailed, handed, wroteOut, wroteErr,
                   command, readEnds, spawns, kills, slow>>

\* wait_timeout returns None: the deadline elapsed.
WaitExpired ==
    /\ hpc = "wait"
    /\ ChildAlive
    /\ elapsed = timeout
    /\ timed_out' = TRUE
    /\ hpc' = "kill"
    /\ UNCHANGED <<inputVars, next, yielded, last, prevKind, test, written, stdinOpen,
                   childVars, elapsed, steps, spawnFailed, handed,
                   command, readEnds, spawns, live, reaps, kills, slow>>

\* wait_timeout returns Err; expect() panics.
WaitFail ==
    /\ hpc = "wait"
    /\ hpc' = "panicked"
    /\ UNCHANGED <<inputVars, next, yielded, last, prevKind, test, written, stdinOpen,
                   childVars, elapsed, timed_out, steps, spawnFailed, handed,
                   command, readEnds, spawns, live, reaps, kills, slow>>

\* Mutant of Kill: kill() succeeds only on a child that has not concluded; on a
\* child that exited meanwhile it returns Err.
Kill_errOnExited ==
    /\ hpc = "kill"
    /\ ChildAlive
    /\ IF ChildAlive
       THEN child' = "exited" /\ status' = "killed"
       ELSE UNCHANGED <<child, status>>
    /\ kills' = kills + 1
    /\ hpc' = "collect"
    /\ steps' = steps \cup {"kill"}
    /\ UNCHANGED <<inputVars, next, yielded, last, prevKind, test, written, stdinOpen,
                   stdinBuf, stdoutBuf, stderrBuf, inTime, elapsed, timed_out,
                   spawnFailed, handed, wroteOut, wroteErr,
                   command, readEnds, spawns, live, reaps, slow>>

\* run.kill(): SIGKILL to the child; a child that exited meanwhile is a zombie
\* and the signal has no effect on it.
Kill ==
    /\ hpc = "kill"
    /\ IF ChildAlive
       THEN child' = "exited" /\ status' = "killed"
       ELSE UNCHANGED <<child, status>>
    /\ kills' = kills + 1
    /\ hpc' = "collect"
    /\ steps' = steps \cup {"kill"}
    /\ UNCHANGED <<inputVars, next, yielded, last, prevKind, test, written, stdinOpen,
                   stdinBuf, stdoutBuf, stderrBuf, inTime, elapsed, timed_out,
                   spawnFailed, handed, wroteOut, wroteErr,
                   command, readEnds, spawns, live, reaps, slow>>

\* run.kill() returns Err; expect() panics.
KillFail ==
    /\ hpc = "kill"
    /\ hpc' = "panicked"
    /\ UNCHANGED <<inputVars, next, yielded, last, prevKind, test, written, stdinOpen,
                   childVars, elapsed, timed_out, steps, spawnFailed, handed,
                   command, readEnds, spawns, live, reaps, kills, slow>>

\* Mutant of ExitStatus: the status of the process is not looked at.
ExitStatus_ignoresStatus(timedOut, st) ==
    IF timedOut THEN "Timeout" ELSE "Ok"

\* Mutant of ExitStatus: the status of the process is looked at first.
ExitStatus_statusFirst(timedOut, st) ==
    IF st = "success" THEN "Ok"
    ELSE IF timedOut THEN "Timeout"
    ELSE "Error"

\* Mutant of ExitStatus: Ok and Error are exchanged.
ExitStatus_swapped(timedOut, st) ==
    IF timedOut THEN "Timeout"
    ELSE IF st = "success" THEN "Error"
    ELSE "Ok"

\* The three-way exit status computed from timed_out and output.status.
ExitStatus(timedOut, st) ==
    IF timedOut THEN "Timeout"
    ELSE IF st = "success" THEN "Ok"
    ELSE "Error"

\* Mutant of WaitWithOutput: the two captured streams are exchanged in the
\* call of the classifier.
WaitWithOutput_streamsSwapped ==
    /\ hpc = "collect"
    /\ child \in {"exited", "reaped"}
    /\ LET output == [status |-> status, stdout |-> stdoutBuf, stderr |-> stderrBuf]
           exit_status == ExitStatus(timed_out, output.status)
       IN  /\ Yield(Pair(test, from_output(test.test_out, output.stderr,
                                           output.stdout, exit_status)))
           /\ handed' = exit_status
    /\ child' = "reaped"
    /\ IF child = "exited"
       THEN reaps' = reaps + 1 /\ live' = live - 1
       ELSE UNCHANGED <<reaps, live>>
    /\ stdinOpen' = FALSE
    /\ readEnds' = {}
    /\ stdoutBuf' = <<>>
    /\ stderrBuf' = <<>>
    /\ hpc' = "idle"
    /\ steps' = steps \cup {"collect", "classify"}
    /\ UNCHANGED <<inputVars, next, prevKind, test, written, status, stdinBuf, inTime,
                   elapsed, timed_out, spawnFailed, wroteOut, wroteErr,
                   command, spawns, kills, slow>>

\* Mutant of WaitWithOutput: the pipes are read to their end but the child is
\* not waited for.
WaitWithOutput_noReap ==
    /\ hpc = "collect"
    /\ child \in {"exited", "reaped"}
    /\ LET output == [status |-> status, stdout |-> stdoutBuf, stderr |-> stderrBuf]
           exit_status == ExitStatus(timed_out, output.status)
       IN  /\ Yield(Pair(test, from_output(test.test_out, output.stdout,
                                           output.stderr, exit_status)))
           /\ handed' = exit_status
    /\ UNCHANGED <<child, reaps, live>>
    /\ stdinOpen' = FALSE
    /\ readEnds' = {}
    /\ stdoutBuf' = <<>>
    /\ stderrBuf' = <<>>
    /\ hpc' = "idle"
    /\ steps' = steps \cup {"collect", "classify"}
    /\ UNCHANGED <<inputVars, next, prevKind, test, written, status, stdinBuf, inTime,
                   elapsed, timed_out, spawnFailed, wroteOut, wroteErr,
                   command, spawns, kills, slow>>

\* wait_with_output: read both pipes to their end, reap the child; then
\* compute the exit status, classify and return the pair to the consumer.
WaitWithOutput ==
    /\ hpc = "collect"
    /\ child \in {"exited", "reaped"}
    /\ LET output == [status |-> status, stdout |-> stdoutBuf, stderr |-> stderrBuf]
           exit_status == ExitStatus(timed_out, output.status)
       IN  /\ Yield(Pair(test, from_output(test.test_out, output.stdout,
                                           output.stderr, exit_status)))
           /\ handed' = exit_status
    /\ child' = "reaped"
    /\ IF child = "exited"
       THEN reaps' = reaps + 1 /\ live' = live - 1
       ELSE UNCHANGED <<reaps, live>>
    /\ stdinOpen' = FALSE
    /\ readEnds' = {}
    /\ stdoutBuf' = <<>>
    /\ stderrBuf' = <<>>
    /\ hpc' = "idle"
    /\ steps' = steps \cup {"collect", "classify"}
    /\ UNCHANGED <<inputVars, next, prevKind, test, written, status, stdinBuf, inTime,
                   elapsed, timed_out, spawnFailed, wroteOut, wroteErr,
                   command, spawns, kills, slow>>

\* wait_with_output returns Err; expect() panics.
CollectFail ==
    /\ hpc = "collect"
    /\ hpc' = "panicked"
    /\ UNCHANGED <<inputVars, next, yielded, last, prevKind, test, written, stdinOpen,
                   childVars, elapsed, timed_out, steps, spawnFailed, handed,
                   command, readEnds, spawns, live, reaps, kills, slow>>

\* ------------------------------------------------------ the child process
\* The child reads what sits in its stdin pipe.
ChildRead ==
    /\ child = "running"
    /\ stdinBuf > 0
    /\ stdinBuf' = 0
    /\ UNCHANGED <<inputVars, next, yielded, last, prevKind, hpc, test, written, stdinOpen,
                   child, status, stdoutBuf, stderrBuf, inTime, elapsed, timed_out,
                   steps, spawnFailed, handed, wroteOut, wroteErr,
                   command, readEnds, spawns, live, reaps, kills, slow>>

\* The child writes a character to stdout; it blocks while the pipe is full.
ChildWriteOut ==
    /\ child = "running"
    /\ Len(stdoutBuf) < PipeCap
    /\ \E c \in Alphabet :
        /\ stdoutBuf' = Append(stdoutBuf, c)
        /\ wroteOut' = Append(wroteOut, c)
    /\ UNCHANGED <<inputVars, next, yielded, last, prevKind, hpc, test, written, stdinOpen,
                   child, status, stdinBuf, stderrBuf, inTime, elapsed, timed_out,
                   steps, spawnFailed, handed, wroteErr,
                   command, readEnds, spawns, live, reaps, kills, slow>>

\* The child writes a character to stderr; it blocks while the pipe is full.
ChildWriteErr ==
    /\ child = "running"
    /\ Len(stderrBuf) < PipeCap
    /\ \E c \in ErrAlphabet :
        /\ stderrBuf' = Append(stderrBuf, c)
        /\ wroteErr' = Append(wroteErr, c)
    /\ UNCHANGED <<inputVars, next, yielded, last, prevKind, hpc, test, written, stdinOpen,
                   child, status, stdinBuf, stdoutBuf, inTime, elapsed, timed_out,
                   steps, spawnFailed, handed, wroteOut,
                   command, readEnds, spawns, live, reaps, kills, slow>>

\* The child calls write(2) on an output pipe that is full: it sleeps until the
\* harness reads from the pipe, which it does only in wait_with_output.
ChildBlock ==
    /\ child = "running"
    /\ Len(stdoutBuf) = PipeCap \/ Len(stderrBuf) = PipeCap
    /\ child' = "blocked"
    /\ UNCHANGED <<inputVars, next, yielded, last, prevKind, hpc, test, written, stdinOpen,
                   status, stdinBuf, stdoutBuf, stderrBuf, inTime, elapsed, timed_out,
                   steps, spawnFailed, handed, wroteOut, wroteErr,
                   command, readEnds, spawns, live, reaps, kills, slow>>

\* The child exits on its own (or is ended by a signal the harness did not
\* send).  Its ends of the pipes close; unread input is discarded.
ChildExit ==
    /\ child = "running"
    /\ child' = "exited"
    /\ \E s \in {"success", "failure"} : status' = s
    /\ stdinBuf' = 0
    /\ inTime' = (hpc \in {"write", "wait"})
    /\ UNCHANGED <<inputVars, next, yielded, last, prevKind, hpc, test, written, stdinOpen,
                   stdoutBuf, stderrBuf, elapsed, timed_out, steps, spawnFailed,
                   handed, wroteOut, wroteErr,
                   command, readEnds, spawns, live, reaps, kills, slow>>

\* --------------------------------------------------------- specification
Harness ==
    \/ NewSequence
    \/ SpawnOk \/ SpawnFail
    \/ WriteChunk \/ WriteFail
    \/ WaitBegin \/ Tick \/ WaitExited \/ WaitExpired \/ WaitFail
    \/ Kill \/ KillFail
    \/ WaitWithOutput \/ CollectFail

Child == ChildRead \/ ChildWriteOut \/ ChildWriteErr \/ ChildBlock \/ ChildExit

Next == Harness \/ Child

Spec == Init /\ [][Next]_vars

\* A command whose executable cannot be launched: every spawn fails.
NextLaunch == SpawnFail \/ NewSequence

SpecLaunch == InitLaunch /\ [][NextLaunch]_vars

\* The harness thread is scheduled, time passes and the consumer keeps
\* iterating; nothing is assumed about what the child does.
FairSpec == Spec /\ WF_vars(Harness)

\* ------------------------------------------------------------ properties
\* The iteration is over: the testcases are exhausted or a panic unwound it.
Finished == hpc = "panicked" \/ (hpc = "idle" /\ next = NumTests)

\* The execution of the testcase requested last has returned its verdict.
Returned == hpc = "idle" /\ next >= 1 /\ yielded = next

\* C1: every testcase yields a verdict even on an internal fault: whatever
\* the outcome of the steps of run_testcase, the iteration is not aborted and
\* at its end the consumer has received one pair per testcase.
C1_VerdictPerTestcase ==
    /\ hpc # "panicked"
    /\ Finished => (yielded = NumTests)

\* C2: for a child that never terminates on its own, whatever test_in and
\* timeout, run_testcase eventually returns and its verdict is TimedOut: the
\* harness waits indefinitely neither on the write, nor on the wait, the kill
\* or the collection.  (An execution a fault of the environment ends by a
\* panic is left to C1: it does not wait either.)
C2_NeverTerminatingTimesOut ==
    \A k \in 1..NumTests :
        (next = k /\ hpc = "write")
            ~> (next = k /\ (\/ status \in {"success", "failure"}
                             \/ hpc = "panicked"
                             \/ (Returned /\ last.result.kind = "TimedOut")))

\* C3: result order matches input order: the k-th pair the consumer receives
\* holds the k-th input testcase and the verdict of the execution made for it.
C3_ResultOrder ==
    /\ (hpc = "idle") => (yielded = next)
    /\ yielded \in {next, next - 1}
    /\ Returned =>
          (/\ last.test = test
           /\ last.test.index = yielded
           /\ spawnFailed <=> (last.result.kind = "UnableToRun")
           /\ ~spawnFailed =>
                 (last.result = from_output(test.test_out, wroteOut, wroteErr,
                                            handed)))

\* The second pair is delivered after a first testcase that did not succeed.
C3_Witness ==
    /\ Returned
    /\ yielded = 2
    /\ last.test.index = 2
    /\ prevKind = "TimedOut"
    /\ last.result.kind = "Failed"

\* C4: when the spawn fails, run_testcase returns UnableToRun at once: no
\* byte written, no wait, no kill, no collection, no call of the classifier.
C4_SpawnFailureReturnsAtOnce ==
    spawnFailed =>
        (/\ Returned
         /\ last.result.kind = "UnableToRun"
         /\ written = 0
         /\ steps = {"spawn"}
         /\ handed = "None"
         /\ child = "none"
         /\ ~stdinOpen)

C4_Witness == spawnFailed /\ yielded = 2 /\ last.test.test_in > 0

\* The execution requested last spawned its child and returned a verdict.
Classified == Returned /\ ~spawnFailed

\* C5: a verdict of UnableToRun or TimedOut does not stop the sequence: the
\* next element can be requested, the request spawns afresh (nothing of the
\* earlier execution is left) and its wait starts with the whole timeout.
C5_NextTestcaseRunsAfresh ==
    /\ []((/\ hpc = "idle"
            /\ next >= 1
            /\ next < NumTests
            /\ last.result.kind \in {"UnableToRun", "TimedOut"})
          => (ENABLED SpawnOk /\ ENABLED SpawnFail))
    /\ [][(next' = next + 1) =>
            (/\ test'.index = next + 1
             /\ last'.test \in {NoTestcase, test'}
             /\ steps' = {"spawn"}
             /\ written' = 0 /\ stdinBuf' = 0
             /\ stdoutBuf' = <<>> /\ stderrBuf' = <<>>
             /\ status' = "none" /\ ~timed_out')]_vars
    /\ [][(hpc = "write" /\ hpc' = "wait") => (elapsed' = 0)]_vars
    /\ [][(hpc = "wait" /\ hpc' = "kill") => (elapsed = timeout)]_vars

\* The second testcase waits out its whole timeout after the first timed out.
C5_Witness ==
    /\ next = 2
    /\ hpc = "kill"
    /\ elapsed = timeout
    /\ timeout = MaxTimeout
    /\ prevKind = "TimedOut"

\* C6: exit-status mapping: the CommandExit handed to the classifier is Ok
\* exactly when the process concluded within the deadline with a success
\* status, Error exactly when it concluded within the deadline with another
\* status, Timeout exactly when the deadline elapsed first and the harness
\* issued its kill.
C6_ExitStatusMapping ==
    Classified =>
        /\ handed \in {"Ok", "Error", "Timeout"}
        /\ (handed = "Ok") <=> (inTime /\ status = "success")
        /\ (handed = "Error") <=> (inTime /\ status # "success")
        /\ (handed = "Timeout") <=>
              (~inTime /\ "kill" \in steps /\ elapsed = timeout)

C6_Witness ==
    /\ Classified
    /\ handed = "Error"
    /\ yielded = 2
    /\ last.result.kind = "Failed"

C8_FailedWhenOutputDiffers ==
    (Classified /\ inTime /\ wroteOut # test.test_out) =>
        /\ last.result.kind = "Failed"
        /\ ~is_success(last.result)
        /\ last.result.stdout = wroteOut

\* C8 amended: a process that completes within the timeout and whose output
\* differs from test_out after normalization gets Failed, whatever its exit
\* status; is_success() is false and the verdict carries exactly what the
\* process wrote to its standard output.
C8_FailedWhenNormalizedOutputDiffers ==
    (Classified /\ inTime /\ Normalize(wroteOut) # Normalize(test.test_out)) =>
        /\ last.result.kind = "Failed"
        /\ ~is_success(last.result)
        /\ last.result.stdout = wroteOut

C8_Witness ==
    /\ Classified
    /\ inTime
    /\ status = "success"
    /\ Normalize(wroteOut) # Normalize(test.test_out)
    /\ wroteOut # <<>>
    /\ wroteErr # <<>>
    /\ last.result.kind = "Failed"

\* C9: when the deadline elapsed before the process concluded, the verdict is
\* TimedOut with the stdout and stderr captured up to the forced termination,
\* also when that output equals the expected one.
C9_TimedOutWhateverTheOutput ==
    (Classified /\ ~inTime) =>
        /\ last.result = TimedOut(wroteOut, wroteErr)
        /\ elapsed = timeout
        /\ "kill" \in steps

C9_Witness ==
    /\ Classified
    /\ ~inTime
    /\ last.result.kind = "TimedOut"
    /\ wroteOut # <<>>
    /\ wroteOut = test.test_out

\* C10: input delivery order: the wait for completion starts only after the
\* whole of test_in is written and the input stream is closed, so the stream
\* is closed from the first instant of the wait on.
C10_InputDeliveryOrder ==
    /\ ("wait" \in steps) => (written = test.test_in /\ ~stdinOpen)
    /\ (hpc \in {"wait", "kill", "collect"}) => ("wait" \in steps)
    /\ stdinOpen => (hpc \in {"write", "panicked"} /\ "wait" \notin steps)
    /\ written <= test.test_in

\* The child has read the whole input and finds end-of-input with no tick of
\* the deadline elapsed.
C10_Witness ==
    /\ hpc = "wait"
    /\ elapsed = 0
    /\ child = "running"
    /\ test.test_in = MaxIn
    /\ written = MaxIn
    /\ stdinBuf = 0
    /\ ~stdinOpen

\* C11: laziness and exactly-once.  At every point the spawn attempts made for
\* the sequence are as many as the elements requested from it: none when
\* lazy_run is called, none for an element not requested, one (no retry) for
\* each requested element; and no child is left alive when nothing is
\* requested.
C11_OneSpawnPerRequest ==
    /\ spawns = next
    /\ (next = 0) => (spawns = 0 /\ live = 0 /\ hpc = "idle" /\ steps = {})
    /\ (hpc \notin {"idle", "panicked"}) => ("spawn" \in steps /\ child # "none")
    /\ live <= spawns

\* The first element was requested and its spawn failed; the second was never
\* requested.
C11_Witness ==
    /\ Returned
    /\ spawnFailed
    /\ next = 1
    /\ spawns = 1
    /\ next < NumTests

\* C12: resources are reclaimed before the next testcase.  In every state at
\* most one child of the harness is alive or unreaped, and whenever
\* run_testcase has returned (the harness is idle: after a normal end, after a
\* timeout and kill, after a failed spawn) no child is left alive or unreaped
\* and the harness holds no end of a stdin, stdout or stderr pipe.
C12_ResourcesReclaimed ==
    /\ live <= 1
    /\ live = (IF child \in {"running", "blocked", "exited"} THEN 1 ELSE 0)
    /\ (hpc = "idle") =>
          (/\ live = 0
           /\ ~stdinOpen
           /\ readEnds = {}
           /\ stdoutBuf = <<>>
           /\ stderrBuf = <<>>)
    /\ Classified => (child = "reaped" /\ reaps = 1)
    /\ (Returned /\ spawnFailed) => (child = "none" /\ reaps = 0)

\* The second testcase timed out, its child was killed, and run_testcase
\* returned.
C12_Witness ==
    /\ Classified
    /\ yielded = 2
    /\ kills = 1
    /\ status = "killed"
    /\ live = 0
    /\ readEnds = {}

\* C13: running the testcases again through a fresh lazy_run sequence over the
\* same command template changes no verdict.  The template is the only state a
\* later execution shares with an earlier one: whatever ran before, after a
\* call of run_testcase it holds the same stdio setting (three pipes) the first
\* call wrote, every child is spawned with its three streams piped to the
\* harness, and the verdict is a function of the testcase and of what the
\* child of that execution did (its output, its exit status, whether it
\* concluded within the deadline), so a deterministic command gets the same
\* verdict in both runs.
C13_TemplateReuseChangesNothing ==
    /\ (spawns >= 1 \/ steps # {}) =>
          (/\ command.stdin = "piped"
           /\ command.stdout = "piped"
           /\ command.stderr = "piped")
    /\ (hpc = "write") => (stdinOpen /\ readEnds = {"stdout", "stderr"})
    /\ ChildAlive => (readEnds = {"stdout", "stderr"})
    /\ Classified =>
          (last.result =
              from_output(test.test_out, wroteOut, wroteErr,
                          IF ~inTime THEN "Timeout"
                          ELSE IF status = "success" THEN "Ok"
                          ELSE "Error"))

\* The first execution of a later sequence is in flight on the reused
\* template (the clock of the last wait of the earlier sequence still shows its
\* expiry): its child got the whole input, wrote the expected output and
\* exited with success.
C13_Witness ==
    /\ next = 1
    /\ hpc = "write"
    /\ elapsed = timeout
    /\ command.stdin = "piped"
    /\ stdinOpen
    /\ test.test_in = MaxIn
    /\ written = test.test_in
    /\ child = "exited"
    /\ status = "success"
    /\ Len(wroteOut) = MaxLen
    /\ Normalize(wroteOut) = Normalize(test.test_out)

C15_KillExactlyOnExpiry ==
    /\ kills <= 1
    /\ (kills = 1) <=> ("kill" \in steps)
    /\ (kills = 1) => (timed_out /\ ~inTime /\ elapsed = timeout /\ "wait" \in steps)
    /\ inTime => (kills = 0 /\ ~timed_out)
    /\ (hpc = "kill") => (timed_out /\ kills = 0 /\ "collect" \notin steps)
    /\ (hpc = "collect") => (kills = (IF timed_out THEN 1 ELSE 0) /\ "collect" \notin steps)
    /\ Classified => (kills = (IF timed_out THEN 1 ELSE 0))

\* The first child concluded in time and was judged without a kill; the second
\* timed out, got its one kill and was collected.
C15_Witness ==
    /\ Classified
    /\ yielded = 2
    /\ prevKind = "Success"
    /\ timed_out
    /\ kills = 1
    /\ last.result.kind = "TimedOut"

\* C16: a child that reads its input, writes its output and exits on its own,
\* and that needs less than the timeout when its output is consumed, is never
\* classified TimedOut: whatever the sizes of test_in and of the output
\* relative to the capacity of a pipe, the harness (write all, wait without
\* reading the output pipes, collect) and the child never block each other
\* and the child is never killed.  A child that got no tick in which it was
\* free to run (slow is false) is such a child: all the time that passed, it
\* was blocked writing output nobody reads.
C16_PromptChildNeverTimedOut ==
    /\ ~(/\ hpc = "write"
         /\ written < test.test_in
         /\ stdinBuf = PipeCap
         /\ child = "blocked")
    /\ (~slow) => (~timed_out /\ kills = 0)
    /\ (Classified /\ ~slow) => (last.result.kind # "TimedOut")

\* C17: the race between the expiry and the child's own exit.  When the wait
\* reported expiry and the child exits by itself before the kill is
\* delivered, the kill still completes without a fault (on the zombie it has
\* no effect), the child is reaped exactly once, by the final collection, and
\* the verdict is TimedOut whatever the exit status; in no interleaving do
\* timed_out and the CommandExit passed to the classifier disagree.
C17_ExitBeforeKillRace ==
    /\ (hpc = "kill" /\ child = "exited") =>
          (/\ status \in {"success", "failure"}
           /\ reaps = 0
           /\ ENABLED Kill)
    /\ (hpc = "collect" /\ timed_out) => (kills = 1 /\ child = "exited" /\ reaps = 0)
    /\ (Classified /\ timed_out) =>
          (/\ reaps = 1
           /\ child = "reaped"
           /\ handed = "Timeout"
           /\ last.result = TimedOut(wroteOut, wroteErr))
    /\ (handed # "None") => (timed_out <=> (handed = "Timeout"))
    /\ Classified => (handed # "None" /\ reaps = 1)

\* The wait of the second testcase reported expiry, the child then exited by
\* itself with a success status, the kill went through, and the verdict is
\* TimedOut.
C17_Witness ==
    /\ Classified
    /\ yielded = 2
    /\ timed_out
    /\ status = "success"
    /\ kills = 1
    /\ reaps = 1
    /\ last.result.kind = "TimedOut"

====
